---- MODULE Spec2Model ----
(***************************************************************************)
(* Model of uwifi/core.py: class uwifi, a wrapper around the MicroPython   *)
(* network.WLAN station (sta_if) and access-point (ap_if) interfaces, the  *)
(* time module and the socket module.                                      *)
(*                                                                         *)
(* The wrapper is single threaded: one wrapper call runs at a time (pc).   *)
(* connect, reconnect and ping are loops and are modelled one iteration    *)
(* per step, because the radio driver changes isconnected() on its own     *)
(* between two polls (LinkUp, LinkDown).  Time is counted in ticks of      *)
(* 1/TicksPerSecond second so that fractional timeouts exist.              *)
(***************************************************************************)
EXTENDS Integers, Sequences, FiniteSets, TLC

\* ------------------------------------------------------------------ bounds
TicksPerSecond == 2
MaxTimeout == 3
MaxRetry == 3
MaxCount == 3
MaxJitter == 1
MaxStartClock == 2

\* --------------------------------------------------------- program values
None == "<None>"

DefaultAuthmode == 4
DefaultChannel == 1
DefaultMaxClients == 4

SleepTwoSeconds == 2 * TicksPerSecond

\* time.sleep(1) of the polling loop, in ticks
SleepTicks == 1 * TicksPerSecond

UnsetIfconfig == <<"0.0.0.0", "0.0.0.0", "0.0.0.0", "0.0.0.0">>
UnsetApConfig ==
    [essid |-> None, password |-> None, authmode |-> 0, channel |-> 0, max_clients |-> 0]

\* ----------------------------------------------------------------- inputs
Ips == {"192.168.1.50"}
Subnets == {"255.255.255.0"}
Gateways == {"192.168.1.1"}
DnsArgs == {None, "8.8.8.8", ""}

\* argument lists of create_access_point; Omitted in a keyword slot stands for
\* an argument the caller left out (pwGiven = FALSE for the password)
Omitted == -1
ApCalls ==
    { [ssid |-> "Test", password |-> "pass1234", authmode |-> Omitted,
       channel |-> Omitted, max_clients |-> Omitted, pwGiven |-> TRUE],
      [ssid |-> "Home", password |-> None, authmode |-> Omitted,
       channel |-> 6, max_clients |-> Omitted, pwGiven |-> FALSE],
      [ssid |-> "Lab", password |-> "s3cret99", authmode |-> 3,
       channel |-> Omitted, max_clients |-> 2, pwGiven |-> TRUE] }

\* value of the argument records while no call of that operation is on record
NoArgs == <<>>

Outcomes == {"resolve_fail", "socket_fail", "connect_fail", "ok"}

VARIABLES
    sta_active, sta_connected, sta_pending, sta_ifconfig,
    ap_active, ap_config,
    now, exactClock,
    pc, caller, step, result, raised, calls,
    timeout, start_time, retry_count, attempt,
    connResult, polls, pollElapsed, prevCheckElapsed, pollConnected,
    connSlept, slept, attemptResults, call_start,
    apRequested, apArgs, ipArgs,
    pingCount, pingOutcomes, sockOpened, sockClosed

staVars == <<sta_active, sta_connected, sta_pending, sta_ifconfig>>
apVars == <<ap_active, ap_config>>
clockVars == <<now, exactClock>>
callVars == <<result, raised, calls>>
connVars == <<timeout, start_time, connResult, polls, pollElapsed,
              prevCheckElapsed, pollConnected, connSlept>>
reconVars == <<retry_count, attempt, attemptResults, slept, call_start>>
argVars == <<apRequested, apArgs, ipArgs>>
pingVars == <<pingCount, pingOutcomes, sockOpened, sockClosed>>
vars == <<staVars, apVars, clockVars, pc, caller, step, callVars, connVars,
          reconVars, argVars, pingVars>>

\* --------------------------------------------------------- pure functions
\* Python truthiness of the values dns can take, and the `or` operator
Truthy(x) == x # None /\ x # ""
PyOr(a, b) == IF Truthy(a) THEN a ELSE b

DefaultIgnoresArg(arg, d) == d

\* a keyword argument with its default
Default(arg, d) == IF arg = Omitted THEN d ELSE arg

TimedOutLate(elapsed, t) == elapsed > t + SleepTicks

\* `time.time() - start_time > timeout`
TimedOut(elapsed, t) == elapsed > t

CaughtConnectOnly(outcome) == outcome = "connect_fail"

\* `except Exception`: every failure of an attempt raises an OSError
Caught(outcome) == outcome \in {"resolve_fail", "socket_fail", "connect_fail"}

MoreAttemptsOffByOne(a, rc) == a <= rc

\* `attempt < retry_count`
MoreAttempts(a, rc) == a < rc

\* socket.socket(...) is reached and returns: line 87
OpensSocket(outcome) == outcome \in {"connect_fail", "ok"}

\* s.close() is reached: line 90, after s.connect(addr) returned
ClosesSocket(outcome) == outcome = "ok"

\* number of requests of one kind in a call log
RECURSIVE CountOf(_, _)
CountOf(log, c) ==
    IF log = <<>> THEN 0
    ELSE (IF Head(log) = c THEN 1 ELSE 0) + CountOf(Tail(log), c)

\* -------------------------------------------------------------------- Init
\* uwifi.__init__
Init ==
    /\ sta_active = TRUE
    /\ ap_active = FALSE
    /\ sta_connected = FALSE
    /\ sta_pending = FALSE
    /\ sta_ifconfig = UnsetIfconfig
    /\ ap_config = UnsetApConfig
    /\ now = 0
    /\ exactClock \in BOOLEAN
    /\ pc = "idle"
    /\ caller = "top"
    /\ step = "init"
    /\ result = "none"
    /\ raised = FALSE
    /\ calls = <<>>
    /\ timeout = 0
    /\ start_time = 0
    /\ retry_count = 0
    /\ attempt = 0
    /\ connResult = "none"
    /\ polls = 0
    /\ pollElapsed = 0
    /\ prevCheckElapsed = 0
    /\ pollConnected = FALSE
    /\ connSlept = 0
    /\ slept = 0
    /\ attemptResults = <<>>
    /\ call_start = 0
    /\ apRequested = FALSE
    /\ apArgs = NoArgs
    /\ ipArgs = NoArgs
    /\ pingCount = 0
    /\ pingOutcomes = <<>>
    /\ sockOpened = 0
    /\ sockClosed = 0

\* ------------------------------------------- locals of a call that returned
\* A wrapper call starts with fresh locals; what the previous call left in its
\* frame and in the record of its driver requests is gone.
ClearConn ==
    /\ timeout' = 0
    /\ start_time' = 0
    /\ connResult' = "none"
    /\ polls' = 0
    /\ pollElapsed' = 0
    /\ prevCheckElapsed' = 0
    /\ pollConnected' = FALSE
    /\ connSlept' = 0

ClearRecon ==
    /\ retry_count' = 0
    /\ attempt' = 0
    /\ attemptResults' = <<>>

ClearPing ==
    /\ pingCount' = 0
    /\ pingOutcomes' = <<>>
    /\ sockOpened' = 0
    /\ sockClosed' = 0

\* entry of a wrapper call that runs to its end in one step
EnterCall(name) ==
    /\ pc = "idle"
    /\ step' = name
    /\ caller' = "top"
    /\ result' = "none"
    /\ raised' = FALSE
    /\ slept' = 0
    /\ call_start' = now
    /\ UNCHANGED <<pc, clockVars>>

\* ------------------------------------------------------------ radio driver
\* the station joins the network it was asked to join
LinkUp ==
    /\ sta_active /\ sta_pending /\ ~sta_connected
    /\ sta_connected' = TRUE
    /\ step' = "link_up"
    /\ UNCHANGED <<sta_active, sta_pending, sta_ifconfig, apVars, clockVars, pc,
                   caller, callVars, connVars, reconVars, argVars, pingVars>>

\* the station loses its network
LinkDown ==
    /\ sta_connected
    /\ sta_connected' = FALSE
    /\ step' = "link_down"
    /\ UNCHANGED <<sta_active, sta_pending, sta_ifconfig, apVars, clockVars, pc,
                   caller, callVars, connVars, reconVars, argVars, pingVars>>

\* ------------------------------------------------------------- disconnect
DisconnectAlways ==
    /\ EnterCall("disconnect")
    /\ sta_connected' = FALSE
    /\ sta_pending' = FALSE
    /\ calls' = <<"sta.disconnect">>
    /\ ClearConn /\ ClearRecon /\ ClearPing
    /\ apArgs' = NoArgs /\ ipArgs' = NoArgs
    /\ UNCHANGED <<sta_active, sta_ifconfig, apVars, apRequested>>

Disconnect ==
    /\ EnterCall("disconnect")
    /\ IF sta_connected
       THEN /\ sta_connected' = FALSE
            /\ sta_pending' = FALSE
            /\ calls' = <<"sta.disconnect">>
       ELSE /\ UNCHANGED <<sta_connected, sta_pending>>
            /\ calls' = <<>>
    /\ ClearConn /\ ClearRecon /\ ClearPing
    /\ apArgs' = NoArgs /\ ipArgs' = NoArgs
    /\ UNCHANGED <<sta_active, sta_ifconfig, apVars, apRequested>>

\* ----------------------------------------------------------- set_static_ip
SetStaticIp(ip, subnet, gateway, dns) ==
    /\ EnterCall("set_static_ip")
    /\ sta_ifconfig' = <<ip, subnet, gateway, PyOr(dns, gateway)>>
    /\ ipArgs' = <<ip, subnet, gateway, dns>>
    /\ calls' = <<"sta.ifconfig">>
    /\ ClearConn /\ ClearRecon /\ ClearPing
    /\ apArgs' = NoArgs
    /\ UNCHANGED <<sta_active, sta_connected, sta_pending, apVars, apRequested>>

\* ------------------------------------------------------------ access point
CreateAccessPointExclusive(a) ==
    /\ EnterCall("create_access_point")
    /\ ap_active' = TRUE
    /\ ap_config' = [essid |-> a.ssid,
                     password |-> IF a.pwGiven THEN a.password ELSE None,
                     authmode |-> Default(a.authmode, DefaultAuthmode),
                     channel |-> Default(a.channel, DefaultChannel),
                     max_clients |-> Default(a.max_clients, DefaultMaxClients)]
    /\ apRequested' = TRUE
    /\ apArgs' = a
    /\ calls' = <<"sta.disconnect", "ap.active", "ap.config">>
    /\ ClearConn /\ ClearRecon /\ ClearPing
    /\ ipArgs' = NoArgs
    /\ sta_connected' = FALSE
    /\ sta_pending' = FALSE
    /\ UNCHANGED <<sta_active, sta_ifconfig>>

CreateAccessPoint(a) ==
    /\ EnterCall("create_access_point")
    /\ ap_active' = TRUE
    /\ ap_config' = [essid |-> a.ssid,
                     password |-> IF a.pwGiven THEN a.password ELSE None,
                     authmode |-> Default(a.authmode, DefaultAuthmode),
                     channel |-> Default(a.channel, DefaultChannel),
                     max_clients |-> Default(a.max_clients, DefaultMaxClients)]
    /\ apRequested' = TRUE
    /\ apArgs' = a
    /\ calls' = <<"ap.active", "ap.config">>
    /\ ClearConn /\ ClearRecon /\ ClearPing
    /\ ipArgs' = NoArgs
    /\ UNCHANGED staVars

DisableAccessPoint ==
    /\ EnterCall("disable_access_point")
    /\ ap_active' = FALSE
    /\ apRequested' = FALSE
    /\ calls' = <<"ap.active">>
    /\ ClearConn /\ ClearRecon /\ ClearPing
    /\ apArgs' = NoArgs /\ ipArgs' = NoArgs
    /\ UNCHANGED <<staVars, ap_config>>

\* ----------------------------------------------------------------- connect
\* lines 25-26: the connect request to the driver and the start of the clock
BeginConnect(log) ==
    /\ sta_pending' = TRUE
    /\ calls' = Append(log, "sta.connect")
    /\ start_time' = now
    /\ connResult' = "none"
    /\ polls' = 0
    /\ pollElapsed' = 0
    /\ prevCheckElapsed' = 0
    /\ pollConnected' = FALSE
    /\ connSlept' = 0
    /\ pc' = "poll"
    /\ UNCHANGED <<sta_active, sta_connected, sta_ifconfig>>

\* `return r` of connect, to the caller of the wrapper or to reconnect's loop
ConnectReturn(r) ==
    /\ connResult' = r
    /\ IF caller = "top"
       THEN /\ result' = r
            /\ pc' = "idle"
            /\ UNCHANGED <<attempt, attemptResults>>
       ELSE /\ attemptResults' = Append(attemptResults, r)
            /\ IF r = "True"
               THEN /\ result' = "True"
                    /\ pc' = "idle"
                    /\ UNCHANGED attempt
               ELSE /\ attempt' = attempt + 1
                    /\ pc' = "r_loop"
                    /\ UNCHANGED result

ConnectStart(t) ==
    /\ pc = "idle"
    /\ now <= MaxStartClock
    /\ step' = "connect"
    /\ caller' = "top"
    /\ result' = "none"
    /\ raised' = FALSE
    /\ slept' = 0
    /\ call_start' = now
    /\ timeout' = t
    /\ BeginConnect(<<>>)
    /\ ClearRecon /\ ClearPing
    /\ apArgs' = NoArgs /\ ipArgs' = NoArgs
    /\ UNCHANGED <<apVars, apRequested, clockVars>>

\* one evaluation of the loop condition and, when it holds, of the timeout test
ConnectPoll ==
    /\ pc = "poll"
    /\ polls' = polls + 1
    /\ pollConnected' = sta_connected
    /\ pollElapsed' = now - start_time
    /\ prevCheckElapsed' = pollElapsed
    /\ IF sta_connected
       THEN ConnectReturn("True")
       ELSE IF TimedOut(now - start_time, timeout)
            THEN ConnectReturn("False")
            ELSE /\ pc' = "sleep"
                 /\ UNCHANGED <<connResult, result, attempt, attemptResults>>
    /\ step' = "poll"
    /\ UNCHANGED <<staVars, apVars, clockVars, caller, raised, calls, timeout,
                   start_time, connSlept, retry_count, slept, call_start, argVars,
                   pingVars>>

\* time.sleep(1); a clock that is not exact runs on by up to MaxJitter ticks
ConnectSleep ==
    /\ pc = "sleep"
    /\ \E j \in 0 .. (IF exactClock THEN 0 ELSE MaxJitter) :
          now' = now + SleepTicks + j
    /\ connSlept' = connSlept + SleepTicks
    /\ slept' = slept + SleepTicks
    /\ pc' = "poll"
    /\ step' = "sleep"
    /\ UNCHANGED <<staVars, apVars, exactClock, caller, callVars, timeout,
                   start_time, connResult, polls, pollElapsed, prevCheckElapsed,
                   pollConnected, retry_count, attempt, attemptResults, call_start,
                   argVars, pingVars>>

\* --------------------------------------------------------------- reconnect
ReconnectStart(t, rc) ==
    /\ pc = "idle"
    /\ now <= MaxStartClock
    /\ step' = "reconnect"
    /\ caller' = "reconnect"
    /\ result' = "none"
    /\ raised' = FALSE
    /\ slept' = 0
    /\ call_start' = now
    /\ calls' = <<>>
    /\ ClearConn /\ ClearPing
    /\ timeout' = t
    /\ retry_count' = rc
    /\ attempt' = 0
    /\ attemptResults' = <<>>
    /\ pc' = "r_loop"
    /\ apArgs' = NoArgs /\ ipArgs' = NoArgs
    /\ UNCHANGED <<staVars, apVars, apRequested, clockVars>>

ReconnectLoopBackoff ==
    /\ pc = "r_loop"
    /\ IF attempt > 0 /\ attempt < retry_count
       THEN /\ now' = now + SleepTicks
            /\ slept' = slept + SleepTicks
       ELSE UNCHANGED <<now, slept>>
    /\ IF MoreAttempts(attempt, retry_count)
       THEN /\ sta_pending' = TRUE
            /\ calls' = Append(calls, "sta.connect")
            /\ start_time' = now'
            /\ connResult' = "none"
            /\ polls' = 0
            /\ pollElapsed' = 0
            /\ prevCheckElapsed' = 0
            /\ pollConnected' = FALSE
            /\ connSlept' = 0
            /\ pc' = "poll"
            /\ UNCHANGED <<sta_active, sta_connected, sta_ifconfig, result>>
       ELSE /\ result' = "False"
            /\ pc' = "idle"
            /\ UNCHANGED <<staVars, calls, start_time, connResult, polls,
                           pollElapsed, prevCheckElapsed, pollConnected, connSlept>>
    /\ step' = "reconnect_loop"
    /\ UNCHANGED <<apVars, exactClock, caller, raised, timeout, retry_count,
                   attempt, attemptResults, call_start, argVars, pingVars>>

\* `while attempt < retry_count`: the next call of connect, or `return False`
ReconnectLoop ==
    /\ pc = "r_loop"
    /\ IF MoreAttempts(attempt, retry_count)
       THEN /\ BeginConnect(calls)
            /\ UNCHANGED result
       ELSE /\ result' = "False"
            /\ pc' = "idle"
            /\ UNCHANGED <<staVars, calls, start_time, connResult, polls,
                           pollElapsed, prevCheckElapsed, pollConnected, connSlept>>
    /\ step' = "reconnect_loop"
    /\ UNCHANGED <<apVars, clockVars, caller, raised, timeout, retry_count, attempt,
                   attemptResults, slept, call_start, argVars, pingVars>>

\* -------------------------------------------------------------------- ping
PingStart(count) ==
    /\ pc = "idle"
    /\ step' = "ping"
    /\ caller' = "top"
    /\ result' = "none"
    /\ raised' = FALSE
    /\ slept' = 0
    /\ call_start' = now
    /\ calls' = <<>>
    /\ pingCount' = count
    /\ pingOutcomes' = <<>>
    /\ sockOpened' = 0
    /\ sockClosed' = 0
    /\ pc' = "ping"
    /\ ClearConn /\ ClearRecon
    /\ apArgs' = NoArgs /\ ipArgs' = NoArgs
    /\ UNCHANGED <<staVars, apVars, apRequested, clockVars>>

\* the body of one iteration of `for _ in range(count)`, lines 85-94
PingAttempt(o) ==
    /\ pc = "ping"
    /\ Len(pingOutcomes) < pingCount
    /\ pingOutcomes' = Append(pingOutcomes, o)
    /\ sockOpened' = sockOpened + (IF OpensSocket(o) THEN 1 ELSE 0)
    /\ sockClosed' = sockClosed + (IF ClosesSocket(o) THEN 1 ELSE 0)
    /\ IF o = "ok"
       THEN /\ result' = "True"
            /\ pc' = "idle"
            /\ UNCHANGED raised
       ELSE IF Caught(o)
            THEN UNCHANGED <<result, pc, raised>>
            ELSE /\ raised' = TRUE
                 /\ pc' = "idle"
                 /\ UNCHANGED result
    /\ step' = "ping_attempt"
    /\ UNCHANGED <<staVars, apVars, clockVars, caller, calls, connVars, reconVars,
                   argVars, pingCount>>

\* the loop ran `count` times without a success: lines 95-96
PingExhausted ==
    /\ pc = "ping"
    /\ Len(pingOutcomes) = pingCount
    /\ result' = "False"
    /\ pc' = "idle"
    /\ step' = "ping_exhausted"
    /\ UNCHANGED <<staVars, apVars, clockVars, caller, raised, calls, connVars,
                   reconVars, argVars, pingVars>>

Next ==
    \/ LinkUp
    \/ LinkDown
    \/ Disconnect
    \/ \E ip \in Ips, sn \in Subnets, gw \in Gateways, dns \in DnsArgs :
          SetStaticIp(ip, sn, gw, dns)
    \/ \E a \in ApCalls : CreateAccessPoint(a)
    \/ DisableAccessPoint
    \/ \E t \in 0 .. MaxTimeout : ConnectStart(t)
    \/ ConnectPoll
    \/ ConnectSleep
    \/ \E t \in 0 .. MaxTimeout, rc \in 0 .. MaxRetry : ReconnectStart(t, rc)
    \/ ReconnectLoop
    \/ \E c \in 0 .. MaxCount : PingStart(c)
    \/ \E o \in Outcomes : PingAttempt(o)
    \/ PingExhausted

Spec == Init /\ [][Next]_vars

\* the interpreter runs a started call on: its loops take their next step
FairSpec ==
    /\ Spec
    /\ WF_vars(ConnectPoll)
    /\ WF_vars(ConnectSleep)
    /\ WF_vars(ReconnectLoop)
    /\ WF_vars(PingExhausted)
    /\ WF_vars(\E o \in Outcomes : PingAttempt(o))
\* ================================================================== claims
\* connect returned (to the caller or to reconnect) and its frame is on record
ConnectDone == connResult # "none"

\* reconnect returned
ReconDone == caller = "reconnect" /\ pc = "idle" /\ result # "none"

\* ping returned or was left by an exception
PingDone == step \in {"ping_attempt", "ping_exhausted"} /\ pc = "idle"

NoneOk(outs, n) == \A i \in 1 .. n : outs[i] # "ok"
AllFalse(rs, n) == \A i \in 1 .. n : rs[i] = "False"

\* C1: a connect whose polls never saw the station connected returns False
\* without raising, at an elapsed time between timeout and timeout + 1 second
\* when the clock advances only by the sleeps; a started connect returns.
C1_TimeoutReturnsFalse ==
    /\ [](ConnectDone /\ ~pollConnected =>
             /\ connResult = "False"
             /\ ~raised
             /\ exactClock => /\ now - start_time >= timeout
                              /\ now - start_time <= timeout + TicksPerSecond)
    /\ (pc \in {"poll", "sleep"}) ~> ConnectDone

C1_Witness ==
    /\ ConnectDone /\ connResult = "False" /\ exactClock
    /\ timeout > 0 /\ polls >= 2 /\ caller = "top"

\* C2: reconnect stops at the first attempt that returns True after exactly
\* that many connect requests, and returns False after exactly retry_count
\* requests when every attempt failed.
C2_ReconnectAttempts ==
    ReconDone =>
        LET n == CountOf(calls, "sta.connect") IN
        /\ n = Len(attemptResults)
        /\ n = Len(calls)
        /\ result = "True" => /\ n >= 1 /\ n <= retry_count
                              /\ attemptResults[n] = "True"
                              /\ AllFalse(attemptResults, n - 1)
        /\ result = "False" => /\ n = retry_count
                               /\ AllFalse(attemptResults, n)

C2_Witness ==
    /\ ReconDone /\ result = "True" /\ Len(attemptResults) = 2
    /\ CountOf(calls, "sta.connect") = 2

\* C3: no exception of an attempt leaves ping; ping returns True at the first
\* attempt that succeeds and False after exactly count failed attempts.
C3_PingAttempts ==
    /\ step \in {"ping", "ping_attempt", "ping_exhausted"} => ~raised
    /\ PingDone =>
          LET n == Len(pingOutcomes) IN
          /\ result \in {"True", "False"}
          /\ result = "True" => /\ n >= 1 /\ n <= pingCount
                                /\ pingOutcomes[n] = "ok"
                                /\ NoneOk(pingOutcomes, n - 1)
          /\ result = "False" => /\ n = pingCount
                                 /\ NoneOk(pingOutcomes, n)

C3_Witness ==
    /\ PingDone /\ result = "True" /\ Len(pingOutcomes) = 2
    /\ pingOutcomes[1] # "ok"

\* C4: disconnect on a station that is not connected sends nothing to either
\* interface and changes neither; on a connected station it sends exactly one
\* disconnect; a disconnect right after a disconnect changes no interface.
C4_DisconnectNoop ==
    [][step' = "disconnect" =>
          /\ ~raised'
          /\ ~sta_connected => /\ calls' = <<>>
                               /\ UNCHANGED <<staVars, apVars>>
          /\ sta_connected => /\ calls' = <<"sta.disconnect">>
                              /\ ~sta_connected'
                              /\ UNCHANGED apVars
          /\ step = "disconnect" => UNCHANGED <<staVars, apVars>>]_vars

C4_Witness ==
    /\ step = "disconnect" /\ calls = <<>> /\ ~sta_connected /\ sta_pending

\* C5: set_static_ip applies (ip, subnet, gateway, dns), with gateway in the
\* DNS field when dns was left out and the supplied dns otherwise.
C5_DnsAsSupplied ==
    step = "set_static_ip" =>
        sta_ifconfig = <<ipArgs[1], ipArgs[2], ipArgs[3],
                         IF ipArgs[4] = None THEN ipArgs[3] ELSE ipArgs[4]>>

\* C6: after construction the station is active and the access point is not;
\* the access point is active exactly when create_access_point was called with
\* no disable_access_point since; right after create_access_point the
\* configuration is the arguments, with None, 4, 1, 4 for those left out.
C6_AccessPointState ==
    /\ step = "init" => sta_active /\ ~ap_active
    /\ ap_active <=> apRequested
    /\ step = "create_access_point" =>
          /\ ap_config.essid = apArgs.ssid
          /\ ap_config.password = (IF apArgs.pwGiven THEN apArgs.password ELSE None)
          /\ ap_config.authmode =
                (IF apArgs.authmode = Omitted THEN 4 ELSE apArgs.authmode)
          /\ ap_config.channel =
                (IF apArgs.channel = Omitted THEN 1 ELSE apArgs.channel)
          /\ ap_config.max_clients =
                (IF apArgs.max_clients = Omitted THEN 4 ELSE apArgs.max_clients)

C6_Witness ==
    /\ step = "create_access_point" /\ ap_active
    /\ ap_config.essid = "Lab" /\ ap_config.authmode = 3 /\ ap_config.channel = 1

\* the parts of C7 that the code and the claim agree on
C7_Common ==
    ConnectDone =>
        /\ CountOf(calls, "sta.connect") =
              (IF caller = "top" THEN 1 ELSE Len(attemptResults))
        /\ connResult = "True" <=> pollConnected
        /\ connResult = "False" => ~pollConnected /\ pollElapsed > timeout

\* C7 as claimed: one connect request per call, True exactly when a poll saw
\* the station connected, False only past the timeout, and never True for a
\* connection first seen when the elapsed time already exceeded timeout.
C7_Original ==
    /\ C7_Common
    /\ ConnectDone /\ connResult = "True" => pollElapsed <= timeout

\* C7 amended: as claimed, but True may be returned for a connection seen at
\* the one poll that follows the last timeout test that did not fire, at most
\* one polling interval past timeout on a clock that advances by the sleeps.
C7_Amended ==
    /\ C7_Common
    /\ ConnectDone /\ connResult = "True" =>
          /\ polls = 1 \/ prevCheckElapsed <= timeout
          /\ exactClock => pollElapsed <= timeout + TicksPerSecond

C7_Witness ==
    /\ ConnectDone /\ connResult = "True" /\ exactClock
    /\ pollElapsed > timeout /\ polls >= 2

C9_SocketsClosed ==
    (pc = "ping" \/ PingDone) => sockOpened = sockClosed

\* C10: the access-point calls leave the station interface alone and the
\* station calls leave the access-point interface alone.
C10_Independent ==
    [][/\ step' \in {"create_access_point", "disable_access_point"} =>
             UNCHANGED staVars
       /\ step' \in {"connect", "poll", "sleep", "reconnect", "reconnect_loop",
                     "disconnect", "set_static_ip"} =>
             UNCHANGED apVars]_vars

C10_Witness ==
    /\ step = "create_access_point" /\ sta_connected /\ ap_active
    /\ sta_active
====
